---- MODULE Spec2Model ----
(***************************************************************************)
(* NeoRL benchmark harness: the ensemble dynamics-model training driver    *)
(* (benchmark/pretrain_dynamics.py) and the environment registry           *)
(* (porl/__init__.py).                                                     *)
(*                                                                         *)
(* Three specifications share the variables:                               *)
(*   Spec      one call of training_dynamics, from its entry to its return *)
(*             or to the exception that ends it;                           *)
(*   SpecSplit the train/validation split of training_dynamics, started at *)
(*             line 72 over a range of buffer lengths and permutations;    *)
(*   SpecMake  calls of porl.make.                                         *)
(***************************************************************************)
EXTENDS Integers, Sequences, FiniteSets

(* ------------------------------------------------------------------ *)
(* Bounds of the model                                                 *)
(* ------------------------------------------------------------------ *)

\* config['ensemble_size'] ranges over 1..MaxEnsemble
MaxEnsemble == 2
\* finite validation losses are 0..MaxLoss
MaxLoss == 1
\* the epoch loop is followed for at most MaxEpoch epochs
MaxEpoch == 10
\* every permutation is drawn for buffers of at most MaxPermLen records
MaxPermLen == 4
\* buffer lengths within MaxSpan of the length where val_size reaches its cap
MaxSpan == 6
\* rotations 0..MaxShift of the identity stand for randperm on long buffers
MaxShift == 2

(* ------------------------------------------------------------------ *)
(* Program constants                                                   *)
(* ------------------------------------------------------------------ *)

\* "if cnt >= 5: break"
StagnationLimit == 5
\* "min(int(data_size * 0.2) + 1, 1000)"
ValCap == 1000
\* int(data_size * 0.2) is data_size \div ValDivisor: the double nearest 0.2 is
\* above 1/5 by 1.1e-17, so for every length below 2^40 the product truncates to
\* floor(data_size / 5)
ValDivisor == 5
\* config["amount"] == 10000
ShortCircuitAmount == 10000

(* ------------------------------------------------------------------ *)
(* Floating-point losses                                               *)
(* ------------------------------------------------------------------ *)

\* float('inf'), encoded above every finite loss
PosInf == MaxLoss + 1
\* the float NaN, which _eval_transition returns once a member has diverged
NaN == MaxLoss + 2
\* the checkpoint slot of a member update_save has not been called for
Unsaved == MaxLoss + 3

FiniteLosses == 0..MaxLoss
\* what one entry of _eval_transition's list can be
Losses == FiniteLosses \cup {PosInf, NaN}

\* a faulty variant of Lt: a NaN counts as an improvement
LtNaNImproves(a, b) == a = NaN \/ (b # NaN /\ a < b)
\* Python's a < b on floats: False as soon as one side is NaN
Lt(a, b) == a # NaN /\ b # NaN /\ a < b

VARIABLES
    pc,               \* position in training_dynamics
    task, amount,     \* config["task"], config["amount"]
    ensemble_size,    \* config['ensemble_size']
    ensemble_selected,\* config['ensemble_selected'], 0 until line 111 reads it
    seeded,           \* setup_seed has been called
    load_calls,       \* calls of load_data_from_neorl
    load_failed,      \* load_data_from_neorl raised
    built,            \* EnsembleTransition and its optimizer exist
    loader_len,       \* length of the buffer the loader returns for this config
    randperm,         \* the permutation random_split draws under this seed
    data_size, val_size, train_size,
    train_indices,    \* train_splits.indices
    val_indices,      \* val_splits.indices
    val_losses,       \* best validation loss per member
    new_val_losses,   \* this epoch's validation losses, <<>> outside lines 94-100
    epoch, cnt,
    saved,            \* per member, the loss of the parameters in its checkpoint
    save_called,      \* update_save was called in the latest epoch
    save_arg,         \* the indexes that call passed, {} without a call
    best_seen,        \* per member, the least number among the losses evaluated
    stagnant,         \* consecutive latest epochs in which no member improved
    last_improved,    \* latest epoch in which a member improved, 0 if none
    indexes,          \* result of _select_best_indexes
    selected,         \* argument of set_select, <<>> before the call
    select_calls,     \* calls of set_select
    performance,      \* losses of the selected members, line 113
    writes,           \* calls of torch.save
    result,           \* the returned mapping
    make_pc,          \* position in porl.make
    make_task,        \* the argument of make
    env,              \* make's local name env
    mujoco,           \* make's local name mujoco is bound
    sys_modules,      \* the porl_envs modules imported so far
    make_result,      \* what the latest call of make returned
    make_error        \* the exception that ended the latest call of make

vars == <<pc, task, amount, ensemble_size, ensemble_selected, seeded, load_calls,
          load_failed, built, loader_len, randperm, data_size, val_size,
          train_size, train_indices, val_indices, val_losses, new_val_losses,
          epoch, cnt, saved, save_called, save_arg, best_seen, stagnant,
          last_improved, indexes, selected, select_calls, performance, writes, result,
          make_pc, make_task, env, mujoco, sys_modules, make_result,
          make_error>>

makeVars == <<make_pc, make_task, env, mujoco, sys_modules, make_result,
             make_error>>
\* what no step of training_dynamics changes: its config and the registry
configVars == <<task, amount, ensemble_size, loader_len, randperm, makeVars>>
splitVars == <<data_size, val_size, train_size, train_indices, val_indices>>
loopVars == <<val_losses, new_val_losses, epoch, cnt, saved, save_called,
              save_arg, best_seen, stagnant, last_improved>>
endVars == <<ensemble_selected, indexes, selected, select_calls, performance,
            writes, result>>
envVars == <<seeded, load_calls, load_failed, built>>
\* what no step of make changes
driverVars == <<pc, task, amount, ensemble_size, loader_len, randperm,
               splitVars, loopVars, endVars, envVars>>

Tasks == {"finance", "ib"}
Amounts == {100, ShortCircuitAmount}

Members == 1..ensemble_size

\* identity permutation of 0..n-1 rotated left by k
Rotation(n, k) == [i \in 1..n |-> (i - 1 + k) % n]

NoResult == [returned |-> FALSE, performance |-> <<>>, path |-> ""]

(* ------------------------------------------------------------------ *)
(* training_dynamics                                                   *)
(* ------------------------------------------------------------------ *)

\* no call of make is under way and nothing is imported
MakeIdle ==
    /\ make_pc = "idle"
    /\ make_task = ""
    /\ env = "unbound"
    /\ mujoco = FALSE
    /\ sys_modules = {}
    /\ make_result = "none yet"
    /\ make_error = ""

\* training_dynamics before its first line
DriverEntry ==
    /\ pc = "entry"
    /\ ensemble_selected = 0
    /\ seeded = FALSE /\ load_calls = 0 /\ load_failed = FALSE /\ built = FALSE
    /\ data_size = 0 /\ val_size = 0 /\ train_size = 0
    /\ train_indices = <<>> /\ val_indices = <<>>
    /\ val_losses = <<>> /\ new_val_losses = <<>>
    /\ epoch = 0 /\ cnt = 0
    /\ saved = <<>> /\ save_called = FALSE /\ save_arg = {}
    /\ best_seen = <<>> /\ stagnant = 0 /\ last_improved = 0
    /\ indexes = <<>> /\ selected = <<>> /\ select_calls = 0
    /\ performance = <<>>
    /\ writes = 0
    /\ result = NoResult

Init ==
    /\ DriverEntry
    /\ task \in Tasks
    /\ amount \in Amounts
    /\ ensemble_size \in 1..MaxEnsemble
    /\ loader_len = MaxPermLen
    /\ randperm = Rotation(MaxPermLen, 1)
    /\ MakeIdle

\* a faulty variant of ShortCircuit: "or" for "and"
ShortCircuitOr == task = "finance" \/ amount = ShortCircuitAmount
\* line 44
ShortCircuit == task = "finance" /\ amount = ShortCircuitAmount

\* lines 44-48
Entry ==
    /\ pc = "entry"
    /\ IF ShortCircuit
       THEN /\ pc' = "returned"
            /\ result' = [returned |-> TRUE, performance |-> <<>>, path |-> ""]
       ELSE /\ pc' = "seed"
            /\ UNCHANGED result
    /\ UNCHANGED <<configVars, splitVars, loopVars, envVars, ensemble_selected,
                   indexes, selected, select_calls, performance, writes>>

\* lines 50-51
Seed ==
    /\ pc = "seed"
    /\ seeded' = TRUE
    /\ pc' = "load"
    /\ UNCHANGED <<configVars, splitVars, loopVars, endVars, load_calls,
                   load_failed, built>>

\* a faulty variant of Load: the loader's exception is swallowed and the run goes on
LoadSwallows ==
    /\ pc = "load"
    /\ load_calls' = load_calls + 1
    /\ \/ /\ load_failed' = FALSE
          /\ pc' = "build"
       \/ /\ load_failed' = TRUE
          /\ pc' = "build"
    /\ UNCHANGED <<configVars, splitVars, loopVars, endVars, seeded, built>>
\* lines 53-54: the loader returns the buffers, or raises and ends the run
Load ==
    /\ pc = "load"
    /\ load_calls' = load_calls + 1
    /\ \/ /\ load_failed' = FALSE
          /\ pc' = "build"
       \/ /\ load_failed' = TRUE
          /\ pc' = "raised"
    /\ UNCHANGED <<configVars, splitVars, loopVars, endVars, seeded, built>>

\* lines 56-70
Build ==
    /\ pc = "build"
    /\ built' = TRUE
    /\ pc' = "split"
    /\ UNCHANGED <<configVars, splitVars, loopVars, endVars, seeded, load_calls,
                   load_failed>>

Min2(a, b) == IF a <= b THEN a ELSE b

\* a faulty variant of ValSize: the cap is dropped
ValSizeNoCap(n) == n \div ValDivisor + 1
\* line 73
ValSize(n) == Min2(n \div ValDivisor + 1, ValCap)

\* torch's random_split: indices[offset - length : offset], on a 1-based sequence
SplitSlice(p, lo, hi) == [k \in 1..(hi - lo) |-> p[lo + k]]

\* lines 72-78
Split ==
    /\ pc = "split"
    /\ data_size' = loader_len
    /\ val_size' = ValSize(loader_len)
    /\ train_size' = loader_len - ValSize(loader_len)
    /\ train_indices' = SplitSlice(randperm, 0, train_size')
    /\ val_indices' = SplitSlice(randperm, train_size', train_size' + val_size')
    /\ pc' = "init_loop"
    /\ UNCHANGED <<configVars, loopVars, endVars, envVars>>

\* lines 80-85
InitLoop ==
    /\ pc = "init_loop"
    /\ val_losses' = [i \in Members |-> PosInf]
    /\ epoch' = 0
    /\ cnt' = 0
    /\ saved' = [i \in Members |-> Unsaved]
    /\ best_seen' = [i \in Members |-> PosInf]
    /\ pc' = "train"
    /\ UNCHANGED <<configVars, splitVars, endVars, envVars, new_val_losses,
                   save_called, save_arg, stagnant, last_improved>>

\* the least of two losses as numbers, a NaN never counting
NumMin(a, b) == IF b = NaN THEN a ELSE IF a = NaN THEN b ELSE Min2(a, b)

\* lines 88-94: one epoch of training, then the members' validation losses
TrainEval ==
    /\ pc = "train"
    /\ epoch < MaxEpoch
    /\ epoch' = epoch + 1
    /\ \E nl \in [Members -> Losses] :
          /\ new_val_losses' = nl
          /\ best_seen' = [i \in Members |-> NumMin(best_seen[i], nl[i])]
    /\ pc' = "update"
    /\ UNCHANGED <<configVars, splitVars, endVars, envVars, val_losses, cnt,
                   saved, save_called, save_arg, stagnant, last_improved>>

\* a faulty variant of ImprovingIndexes: every member is checkpointed
ImprovingAll(new, old) == DOMAIN old
\* lines 96-100: the members appended to indexes
ImprovingIndexes(new, old) == {i \in DOMAIN old : Lt(new[i], old[i])}

\* lines 97-100: val_losses after the loop over the members
UpdatedLosses(new, old) ==
    [i \in DOMAIN old |-> IF Lt(new[i], old[i]) THEN new[i] ELSE old[i]]

\* update_save(indexes): the current parameters of the members of idx, whose
\* validation losses are new, are copied into their checkpoint slots
UpdateSave(slots, idx, new) ==
    [i \in DOMAIN slots |-> IF i \in idx THEN new[i] ELSE slots[i]]

\* lines 102-106
NextCnt(c, improved) == IF improved THEN 0 ELSE c + 1

\* a faulty variant of Break: "cnt > 5"
BreakLate == cnt' > StagnationLimit
\* a faulty variant of Break: "cnt >= 4"
BreakEarly == cnt' >= StagnationLimit - 1
\* a faulty variant of Break: the loop also stops at a fixed number of epochs
BreakCapped == cnt' >= StagnationLimit \/ epoch >= StagnationLimit + 1
\* lines 108-109, read after the counter's update
Break == cnt' >= StagnationLimit

\* some member's new loss is a number below its recorded best
SomeImproves ==
    \E i \in Members :
        /\ new_val_losses[i] # NaN
        /\ new_val_losses[i] < val_losses[i]

\* lines 96-109
Update ==
    /\ pc = "update"
    /\ val_losses' = UpdatedLosses(new_val_losses, val_losses)
    /\ LET idx == ImprovingIndexes(new_val_losses, val_losses) IN
          /\ cnt' = NextCnt(cnt, idx # {})
          /\ save_called' = (idx # {})
          /\ save_arg' = idx
          /\ saved' = IF idx # {} THEN UpdateSave(saved, idx, new_val_losses)
                      ELSE saved
    /\ stagnant' = IF SomeImproves THEN 0 ELSE stagnant + 1
    /\ last_improved' = IF SomeImproves THEN epoch ELSE last_improved
    /\ new_val_losses' = <<>>
    /\ pc' = IF Break THEN "select" ELSE "train"
    /\ UNCHANGED <<configVars, splitVars, endVars, envVars, epoch, best_seen>>

(* ------------------------------------------------------------------ *)
(* _select_best_indexes                                                *)
(* ------------------------------------------------------------------ *)

\* member i of the model is index i - 1 of the Python lists

\* line 15: the (metric, index) pairs in index order
Pairs(metrics) == [i \in 1..Len(metrics) |-> <<metrics[i], i>>]

RECURSIVE InsertUnstable(_, _)
\* a faulty variant of Insert: an equal key goes before its equals
InsertUnstable(sorted, p) ==
    IF sorted = <<>> THEN <<p>>
    ELSE IF ~Lt(Head(sorted)[1], p[1]) THEN <<p>> \o sorted
    ELSE <<Head(sorted)>> \o InsertUnstable(Tail(sorted), p)

RECURSIVE Insert(_, _)
\* sorted()'s insertion of one pair into a sorted run: before the first pair
\* whose key is greater, so after every pair with an equal key
Insert(sorted, p) ==
    IF sorted = <<>> THEN <<p>>
    ELSE IF Lt(p[1], Head(sorted)[1]) THEN <<p>> \o sorted
    ELSE <<Head(sorted)>> \o Insert(Tail(sorted), p)

RECURSIVE SortedPrefix(_, _)
\* line 16: sorted(pairs, key=lambda x: x[0]) of the first k pairs
SortedPrefix(pairs, k) ==
    IF k = 0 THEN <<>> ELSE Insert(SortedPrefix(pairs, k - 1), pairs[k])

\* lines 14-18, for n <= len(metrics)
SelectBestIndexes(metrics, n) ==
    LET pairs == SortedPrefix(Pairs(metrics), Len(metrics)) IN
    [k \in 1..n |-> pairs[k][2]]

\* line 111: pairs[i] raises IndexError once i reaches len(metrics)
Select ==
    /\ pc = "select"
    /\ \E n \in 1..(ensemble_size + 1) :
          /\ ensemble_selected' = n
          /\ IF n > Len(val_losses)
             THEN /\ pc' = "raised"
                  /\ UNCHANGED indexes
             ELSE /\ pc' = "set_select"
                  /\ indexes' = SelectBestIndexes(val_losses, n)
    /\ UNCHANGED <<configVars, splitVars, loopVars, envVars, selected,
                   select_calls, performance, writes, result>>

\* line 112
SetSelect ==
    /\ pc = "set_select"
    /\ selected' = indexes
    /\ select_calls' = select_calls + 1
    /\ pc' = "final_eval"
    /\ UNCHANGED <<configVars, splitVars, loopVars, envVars, ensemble_selected,
                   indexes, performance, writes, result>>

\* line 113: one loss per selected member
FinalEval ==
    /\ pc = "final_eval"
    /\ performance' \in [1..Len(selected) -> Losses]
    /\ pc' = "save"
    /\ UNCHANGED <<configVars, splitVars, loopVars, envVars, ensemble_selected,
                   indexes, selected, select_calls, writes, result>>

\* lines 114-117
Save ==
    /\ pc = "save"
    /\ writes' = writes + 1
    /\ pc' = "return"
    /\ UNCHANGED <<configVars, splitVars, loopVars, envVars, ensemble_selected,
                   indexes, selected, select_calls, performance, result>>

\* lines 119-122
Return ==
    /\ pc = "return"
    /\ result' = [returned |-> TRUE, performance |-> performance, path |-> "pt"]
    /\ pc' = "returned"
    /\ UNCHANGED <<configVars, splitVars, loopVars, envVars, ensemble_selected,
                   indexes, selected, select_calls, performance, writes>>

Next ==
    \/ Entry \/ Seed \/ Load \/ Build \/ Split \/ InitLoop
    \/ TrainEval \/ Update
    \/ Select \/ SetSelect \/ FinalEval \/ Save \/ Return

Spec == Init /\ [][Next]_vars

(* ------------------------------------------------------------------ *)
(* The split alone, over buffer lengths and permutations               *)
(* ------------------------------------------------------------------ *)

\* the least buffer length whose val_size is the cap
CapLen == (ValCap - 1) * ValDivisor

SplitLens == (1..MaxPermLen) \cup ((CapLen - MaxSpan)..(CapLen + MaxSpan))

\* every permutation of 0..n-1
Permutations(n) ==
    {p \in [1..n -> 0..(n - 1)] : \A i, j \in 1..n : p[i] = p[j] => i = j}

\* what randperm may return: any permutation of a short buffer, a rotation of
\* a long one
RandpermOutcomes(n) ==
    IF n <= MaxPermLen THEN Permutations(n)
    ELSE {Rotation(n, k) : k \in 0..MaxShift}

\* training_dynamics at line 72, the buffer loaded and the model built
InitSplit ==
    /\ pc = "split"
    /\ task = "ib" /\ amount \in Amounts
    /\ ensemble_size = 1
    /\ ensemble_selected = 0
    /\ seeded = TRUE /\ load_calls = 1 /\ load_failed = FALSE /\ built = TRUE
    /\ loader_len \in SplitLens
    /\ randperm \in RandpermOutcomes(loader_len)
    /\ data_size = 0 /\ val_size = 0 /\ train_size = 0
    /\ train_indices = <<>> /\ val_indices = <<>>
    /\ val_losses = <<>> /\ new_val_losses = <<>>
    /\ epoch = 0 /\ cnt = 0
    /\ saved = <<>> /\ save_called = FALSE /\ save_arg = {}
    /\ best_seen = <<>> /\ stagnant = 0 /\ last_improved = 0
    /\ indexes = <<>> /\ selected = <<>> /\ select_calls = 0
    /\ performance = <<>>
    /\ writes = 0
    /\ result = NoResult
    /\ MakeIdle

SpecSplit == InitSplit /\ [][Split]_vars

(* ------------------------------------------------------------------ *)
(* porl.make                                                           *)
(* ------------------------------------------------------------------ *)

IbNames == {"ib", "ib-v0"}
MujocoNames == {"HalfCheetah-v3", "Walker2d-v3", "Hopper-v3"}
\* line 23, the misspelt first name included
D4rlNames == {"halfcheetah-meidum-v0", "hopper-medium-v0", "walker2d-medium-v0"}
\* the names of no family the registry's interface lists
OtherNames == {"traffic", "Traffic", "", "halfcheetah-medium-v0", "HalfCheetah-v2"}

TaskNames ==
    IbNames \cup {"citylearn", "finance"} \cup MujocoNames \cup D4rlNames
        \cup OtherNames

\* the branch of the if/elif chain of lines 6-27 that task takes;
\* task.startswith("ib") holds of the names of IbNames alone
Branch(t) ==
    IF t \in IbNames THEN "ib"
    ELSE IF t = "traffic" THEN "traffic"
    ELSE IF t = "citylearn" THEN "citylearn"
    ELSE IF t = "finance" THEN "finance"
    ELSE IF t \in MujocoNames THEN "mujoco"
    ELSE IF t \in D4rlNames THEN "d4rl"
    ELSE "else"

\* line 4: a caller calls make; the locals of the new frame are unbound
Call ==
    /\ make_pc \in {"idle", "returned", "raised"}
    /\ \E t \in TaskNames : make_task' = t
    /\ env' = "unbound"
    /\ mujoco' = FALSE
    /\ make_result' = "none yet"
    /\ make_error' = ""
    /\ make_pc' = "dispatch"
    /\ UNCHANGED <<driverVars, sys_modules>>

\* lines 7-9, 13-15, 17-19: import the family's registry, assert the task is one
\* of its keys, bind env to its entry
Lookup(family) ==
    /\ make_pc = "dispatch"
    /\ Branch(make_task) = family
    /\ sys_modules' = sys_modules \cup {family}
    /\ \/ /\ env' = "environment"
          /\ make_pc' = "return"
          /\ UNCHANGED make_error
       \/ /\ make_error' = "AssertionError"
          /\ make_pc' = "raised"
          /\ UNCHANGED env
    /\ UNCHANGED <<driverVars, make_task, mujoco, make_result>>

\* lines 6-9
DispatchIb == Lookup("ib")

\* lines 10-11: pass
DispatchTraffic ==
    /\ make_pc = "dispatch"
    /\ Branch(make_task) = "traffic"
    /\ make_pc' = "return"
    /\ UNCHANGED <<driverVars, make_task, env, mujoco, sys_modules, make_result,
                   make_error>>

\* lines 12-15
DispatchCitylearn == Lookup("citylearn")

\* lines 16-19
DispatchFinance == Lookup("finance")

\* lines 20-22
DispatchMujoco ==
    /\ make_pc = "dispatch"
    /\ Branch(make_task) = "mujoco"
    /\ sys_modules' = sys_modules \cup {"mujoco"}
    /\ mujoco' = TRUE
    /\ env' = "environment"
    /\ make_pc' = "return"
    /\ UNCHANGED <<driverVars, make_task, make_result, make_error>>

\* lines 23-25: d4rl is imported, then the local name mujoco is read
DispatchD4rl ==
    /\ make_pc = "dispatch"
    /\ Branch(make_task) = "d4rl"
    /\ sys_modules' = sys_modules \cup {"d4rl"}
    /\ IF mujoco
       THEN /\ env' = "environment"
            /\ make_pc' = "return"
            /\ UNCHANGED make_error
       ELSE /\ make_error' = "UnboundLocalError"
            /\ make_pc' = "raised"
            /\ UNCHANGED env
    /\ UNCHANGED <<driverVars, make_task, mujoco, make_result>>

\* lines 26-27
DispatchElse ==
    /\ make_pc = "dispatch"
    /\ Branch(make_task) = "else"
    /\ env' = "None"
    /\ make_pc' = "return"
    /\ UNCHANGED <<driverVars, make_task, mujoco, sys_modules, make_result,
                   make_error>>

\* line 34: return env
ReturnEnv ==
    /\ make_pc = "return"
    /\ IF env = "unbound"
       THEN /\ make_error' = "UnboundLocalError"
            /\ make_pc' = "raised"
            /\ UNCHANGED make_result
       ELSE /\ make_result' = env
            /\ make_pc' = "returned"
            /\ UNCHANGED make_error
    /\ UNCHANGED <<driverVars, make_task, env, mujoco, sys_modules>>

InitMake ==
    /\ DriverEntry
    /\ task = "ib" /\ amount \in Amounts
    /\ ensemble_size = 1
    /\ loader_len = MaxPermLen
    /\ randperm = Rotation(MaxPermLen, 1)
    /\ MakeIdle

NextMake ==
    \/ Call
    \/ DispatchIb \/ DispatchTraffic \/ DispatchCitylearn \/ DispatchFinance
    \/ DispatchMujoco \/ DispatchD4rl \/ DispatchElse
    \/ ReturnEnv

SpecMake == InitMake /\ [][NextMake]_vars

(* ------------------------------------------------------------------ *)
(* Properties                                                          *)
(* ------------------------------------------------------------------ *)

\* a is a number strictly below b (+infinity is a number, NaN is not)
StrictlyBelow(a, b) == a # NaN /\ b # NaN /\ a < b

\* the epoch loop has been left
LoopDone ==
    \/ pc \in {"select", "set_select", "final_eval", "save", "return"}
    \/ pc \in {"returned", "raised"} /\ epoch > 0

\* the epoch loop is running
InLoop == pc \in {"train", "update"}

\* C1: the epoch loop runs while fewer than 5 consecutive epochs without an
\* improving member have completed and stops at the end of the epoch that
\* completes the fifth; cnt is the number of consecutive latest epochs without
\* an improving member, so an improving epoch resets it to 0; a run that
\* improves at epoch 1 and never again stops after exactly 6 epochs.
C1_StopsAtFifthStagnantEpoch ==
    /\ InLoop \/ LoopDone => cnt = stagnant
    /\ InLoop => stagnant < 5
    /\ LoopDone => stagnant = 5 /\ epoch = last_improved + 5
    /\ LoopDone /\ last_improved = 1 => epoch = 6

\* C1: the loop has stopped after 6 epochs, the only improvement in epoch 1
C1_Witness == pc = "select" /\ epoch = 6 /\ last_improved = 1 /\ cnt = 5

\* set of the members passed to set_select
SelectedSet == {selected[k] : k \in 1..Len(selected)}

\* C2: set_select receives exactly ensemble_selected distinct members, each
\* with a final best loss no greater than that of every member left out, in
\* ascending order of loss, equal losses in ascending order of index, and of
\* two members with equal loss the one left out has the higher index.
C2_SelectsLowestLossStable ==
    select_calls = 1 =>
        /\ ensemble_selected <= ensemble_size
        /\ Len(selected) = ensemble_selected
        /\ SelectedSet \subseteq Members
        /\ Cardinality(SelectedSet) = ensemble_selected
        /\ \A i \in Members : val_losses[i] # NaN
        /\ \A i \in SelectedSet : \A j \in Members \ SelectedSet :
              \/ val_losses[i] < val_losses[j]
              \/ val_losses[i] = val_losses[j] /\ i < j
        /\ \A k \in 1..(Len(selected) - 1) :
              \/ val_losses[selected[k]] < val_losses[selected[k + 1]]
              \/ /\ val_losses[selected[k]] = val_losses[selected[k + 1]]
                 /\ selected[k] < selected[k + 1]

\* C2: two members tie, one place: the lower index was selected
C2_Witness ==
    /\ select_calls = 1
    /\ ensemble_size = 2
    /\ ensemble_selected = 1
    /\ val_losses[1] = val_losses[2]
    /\ val_losses[1] \in FiniteLosses
    /\ selected = <<1>>

\* set of the entries of a sequence of indices
Range(seq) == {seq[k] : k \in 1..Len(seq)}

\* C3: after the split of a buffer of N >= 1 records, val_size is
\* min(floor(N / 5) + 1, 1000), train_size is N - val_size and is not
\* negative, and the train and validation indices are train_size and val_size
\* indices, disjoint, covering 0..N-1 each exactly once.
C3_SplitPartitionsBuffer ==
    pc = "init_loop" =>
        /\ data_size = loader_len
        /\ \/ val_size = 1000 /\ data_size >= 5 * (1000 - 1)
           \/ /\ val_size < 1000
              /\ 5 * (val_size - 1) <= data_size
              /\ data_size < 5 * val_size
        /\ train_size = data_size - val_size
        /\ train_size >= 0
        /\ train_size + val_size = data_size
        /\ Len(train_indices) = train_size
        /\ Len(val_indices) = val_size
        /\ Range(train_indices) \cap Range(val_indices) = {}
        /\ Range(train_indices) \cup Range(val_indices) = 0..(data_size - 1)
        /\ Cardinality(Range(train_indices)) = train_size
        /\ Cardinality(Range(val_indices)) = val_size

\* C3: a buffer long enough for the cap on val_size to apply has been split
C3_Witness ==
    /\ pc = "init_loop"
    /\ data_size > 5 * 1000
    /\ val_size = 1000
    /\ train_size = data_size - 1000
    /\ Len(val_indices) = 1000

\* C4: every member's recorded best loss starts at +infinity, changes only in
\* the update of an epoch, only to that epoch's new loss and only when the new
\* loss is strictly smaller, and between epochs is the least number among the
\* losses evaluated for the member so far (+infinity when there is none).
C4_BestLossIsRunningMinimum ==
    /\ [](pc = "train" /\ epoch = 0 => \A i \in Members : val_losses[i] = PosInf)
    /\ []((InLoop \/ LoopDone) /\ pc # "update" => val_losses = best_seen)
    /\ [][\A i \in DOMAIN val_losses :
            val_losses'[i] # val_losses[i] =>
                /\ pc = "update"
                /\ StrictlyBelow(new_val_losses[i], val_losses[i])
                /\ val_losses'[i] = new_val_losses[i]
                /\ val_losses'[i] < val_losses[i]]_vars

\* C4: member 1 improved twice and then met a loss that is no improvement
C4_Witness ==
    /\ pc = "train"
    /\ epoch = 3
    /\ last_improved = 2
    /\ val_losses[1] = 0
    /\ saved[1] = 0

\* C5: with task 'finance' and amount 10000 the call returns
\* {performance: [], path: ''} at once, nothing seeded, loaded, built, trained
\* or written; with any other pair it does not return before seeding, and past
\* line 54 the seed is set and the loader has been called.
C5_ShortCircuitOnlyForFinance10000 ==
    /\ task = "finance" /\ amount = 10000 =>
          /\ pc \in {"entry", "returned"}
          /\ ~seeded /\ load_calls = 0 /\ ~built
          /\ epoch = 0 /\ val_losses = <<>> /\ writes = 0
          /\ pc = "returned" =>
                result = [returned |-> TRUE, performance |-> <<>>, path |-> ""]
    /\ ~(task = "finance" /\ amount = 10000) =>
          /\ pc \notin {"entry", "seed"} => seeded
          /\ pc \notin {"entry", "seed", "load"} => load_calls = 1
          /\ pc = "returned" => result.path # "" /\ writes = 1

\* C5: the short-circuit configuration has returned
C5_Witness ==
    /\ pc = "returned"
    /\ task = "finance" /\ amount = 10000
    /\ result.path = "" /\ result.performance = <<>>
    /\ ~seeded /\ load_calls = 0

\* C6 as stated: epoch 1 checkpoints every member and the loop never stops
\* before 6 epochs have completed.
C6_FirstEpochImprovesAll ==
    /\ (InLoop \/ LoopDone) /\ epoch >= 1 /\ pc # "update" =>
          \A i \in Members : saved[i] # Unsaved
    /\ LoopDone => epoch >= 6

\* C6, amended: epoch 1 improves and checkpoints exactly the members whose
\* epoch-1 loss is a finite number (not +infinity, not NaN); the loop never
\* stops before 5 epochs have completed, and never before 6 once a member has
\* been checkpointed.
C6_FirstEpochImprovesFinite ==
    /\ [][pc = "update" /\ epoch = 1 =>
            /\ save_arg' = {i \in Members : new_val_losses[i] \in FiniteLosses}
            /\ \A i \in Members :
                  IF new_val_losses[i] \in FiniteLosses
                  THEN saved'[i] = new_val_losses[i]
                  ELSE saved'[i] = Unsaved]_vars
    /\ [](LoopDone => epoch >= 5)
    /\ [](LoopDone /\ (\E i \in Members : saved[i] # Unsaved) => epoch >= 6)

\* C6: the loop has stopped after 6 epochs, member 1 checkpointed in epoch 1
\* and member 2 never
C6_Witness ==
    /\ pc = "select"
    /\ epoch = 6
    /\ ensemble_size = 2
    /\ last_improved = 1
    /\ saved[1] # Unsaved
    /\ saved[2] = Unsaved

\* the names of the families the registry's interface lists
RecognizedNames ==
    IbNames \cup {"citylearn", "finance"} \cup MujocoNames \cup D4rlNames

\* C7: for a task name of no recognized family make does not raise: it returns
\* None and reads no name that was never bound.
C7_UnknownTaskReturnsNone ==
    make_task \notin RecognizedNames /\ make_pc \in {"returned", "raised"} =>
        /\ make_pc = "returned"
        /\ make_result = "None"
        /\ make_error # "UnboundLocalError"

\* C8: torch.save is called at most once, and only after the loop has stopped
\* and set_select has been called; not in the short-circuit case, and not
\* after the loader has raised, which ends the run.
C8_ArtifactWrittenOnceAtEnd ==
    /\ writes <= 1
    /\ writes = 1 =>
          /\ pc \in {"return", "returned"}
          /\ stagnant = 5
          /\ select_calls = 1
          /\ selected = indexes
    /\ task = "finance" /\ amount = 10000 => writes = 0
    /\ load_failed => writes = 0 /\ pc = "raised"

\* C8: the run has returned after its one write
C8_Witness ==
    /\ pc = "returned"
    /\ writes = 1
    /\ select_calls = 1
    /\ result.path # ""

\* C9: in each epoch update_save receives exactly the members whose new loss
\* is strictly below their recorded best, and is not called when there is
\* none; the checkpoint and the recorded best of every other member are
\* unchanged.
C9_CheckpointsExactlyImprovers ==
    [][pc = "update" =>
        LET improvers == {i \in Members :
                            StrictlyBelow(new_val_losses[i], val_losses[i])}
        IN  /\ save_called' = (improvers # {})
            /\ save_arg' = improvers
            /\ \A i \in improvers :
                  /\ saved'[i] = new_val_losses[i]
                  /\ val_losses'[i] = new_val_losses[i]
            /\ \A i \in Members \ improvers :
                  /\ saved'[i] = saved[i]
                  /\ val_losses'[i] = val_losses[i]]_vars

\* C9: epoch 2 improved member 1 and not member 2, whose checkpoint is that
\* of epoch 1
C9_Witness ==
    /\ pc = "train"
    /\ epoch = 2
    /\ ensemble_size = 2
    /\ save_called
    /\ save_arg = {1}
    /\ saved[2] \in FiniteLosses

\* C10: the only exit of the epoch loop is the stagnation counter reaching 5:
\* whatever the epoch number, the update of an epoch leaves the loop when the
\* counter has reached 5 and starts another epoch when it has not.
C10_OnlyStagnationExits ==
    [][pc = "update" =>
        /\ cnt' >= 5 => pc' = "select"
        /\ cnt' < 5 => pc' = "train"]_vars

\* C10: the loop is still running at the last epoch followed, a member having
\* improved within every 5 epochs
C10_Witness ==
    /\ pc = "train"
    /\ epoch = MaxEpoch
    /\ last_improved > epoch - 5

====
